---- MODULE Spec2Model ----
(***************************************************************************)
(* A model of test-fixtures/sample.py: the Application class, the          *)
(* ApiService class, the free function format_message and the three       *)
(* module-level constants.                                                 *)
(*                                                                         *)
(* A Python str is a sequence of one-character strings, so that            *)
(* concatenation and f-string formatting are computed character by         *)
(* character.  An optional argument is a sequence of length 0 (the         *)
(* argument is omitted and the default applies) or 1 (the argument         *)
(* supplied).  Instances are kept in construction order; an instance's     *)
(* identity is its index.  MaxGrowth bounds the number of instances        *)
(* constructed plus the number of lines printed; MaxLen bounds the length  *)
(* of the strings handed to format_message.                                *)
(*                                                                         *)
(* apps, services  the instances constructed so far                        *)
(* output          the lines printed to stdout                             *)
(* globals         the module-level bindings                               *)
(* lastOp, ret     the latest call with its arguments, and what it returned*)
(* hist            per Application, the name last given to it (by the      *)
(*                 constructor or set_name) and its last start/stop call   *)
(*                                                                         *)
(* fetch_data and post_data are coroutines without an await in their body: *)
(* FetchData and PostData are the awaited call, run to completion.         *)
(***************************************************************************)
EXTENDS Integers, Sequences, FiniteSets

VARIABLES apps, services, output, globals, lastOp, ret, hist

vars == <<apps, services, output, globals, lastOp, ret, hist>>

-----------------------------------------------------------------------------
(* Bounds of the model *)

MaxGrowth == 3

MaxLen == 2

-----------------------------------------------------------------------------
(* Inputs *)

Chars == {"a", ":", " "}

RECURSIVE StrsOfLen(_)
StrsOfLen(n) ==
    IF n = 0 THEN {<<>>}
    ELSE {Append(s, c) : s \in StrsOfLen(n - 1), c \in Chars}

Strs == UNION {StrsOfLen(n) : n \in 0..MaxLen}

Opt(S) == {<<>>} \cup {<<x>> : x \in S}

Names == {<<"a">>, <<"b">>}

Versions == {<<"1">>, <<"2">>}

Keys == {<<"k">>, <<"s">>}

Timeouts == {0, 30000}

Endpoints == {<<"/">>, <<"/", "x">>}

Data == {<<>>, <<<<"k", "v">>>>}

Prefixes == {<<>>, <<"L">>}

-----------------------------------------------------------------------------
(* Values returned to the caller *)

StrVal(s) == [kind |-> "str", val |-> s]

NoneVal == [kind |-> "None", val |-> <<>>]

DictVal(d) == [kind |-> "dict", val |-> d]

ObjVal(cls) == [kind |-> cls, val |-> <<>>]

Call(op, id, args, opt) == [op |-> op, id |-> id, args |-> args, opt |-> opt]

-----------------------------------------------------------------------------
(* class Application *)

Application_init(name, version) ==
    [name |-> name, version |-> version, _running |-> FALSE]

get_name(self) == StrVal(self.name)

set_name_clobbersVersion(self, name) ==
    [self EXCEPT !.name = name, !.version = name]

set_name(self, name) == [self EXCEPT !.name = name]

StartingMsg(self) ==
    <<"S", "t", "a", "r", "t", "i", "n", "g", " ">> \o self.name
        \o <<" ", "v">> \o self.version

StoppingMsg_withVersion(self) ==
    <<"S", "t", "o", "p", "p", "i", "n", "g", " ">> \o self.name
        \o <<" ", "v">> \o self.version

StoppingMsg(self) ==
    <<"S", "t", "o", "p", "p", "i", "n", "g", " ">> \o self.name

start(self) ==
    [obj |-> [self EXCEPT !._running = TRUE], out |-> StartingMsg(self)]

stop_keepsFlag(self) == [obj |-> self, out |-> StoppingMsg(self)]

stop(self) ==
    [obj |-> [self EXCEPT !._running = FALSE], out |-> StoppingMsg(self)]

-----------------------------------------------------------------------------
(* class ApiService *)

DefaultTimeoutArg == 5000

FixedRetries == 3

ApiService_init_ignoresTimeout(api_key, timeout) ==
    [api_key |-> api_key, timeout |-> DefaultTimeoutArg, retries |-> FixedRetries]

ApiService_init(api_key, timeout) ==
    [api_key |-> api_key,
     timeout |-> IF timeout = <<>> THEN DefaultTimeoutArg ELSE timeout[1],
     retries |-> FixedRetries]

fetch_data_enforcesTimeout(self, endpoint) ==
    [obj |-> self,
     ret |-> IF self.timeout = 0
             THEN [kind |-> "raise", val |-> <<>>]
             ELSE DictVal(<<>>)]

fetch_data(self, endpoint) == [obj |-> self, ret |-> DictVal(<<>>)]

post_data_consumesRetry(self, endpoint, data) ==
    [obj |-> [self EXCEPT !.retries = self.retries - 1], ret |-> NoneVal]

post_data(self, endpoint, data) == [obj |-> self, ret |-> NoneVal]

-----------------------------------------------------------------------------
(* def format_message *)

Truthy(opt) == opt # <<>> /\ opt[1] # <<>>

format_message_noSeparator(message, prefix) ==
    IF Truthy(prefix)
    THEN StrVal(prefix[1] \o message)
    ELSE StrVal(message)

format_message_isNotNone(message, prefix) ==
    IF prefix # <<>>
    THEN StrVal(prefix[1] \o <<":", " ">> \o message)
    ELSE StrVal(message)

format_message(message, prefix) ==
    IF Truthy(prefix)
    THEN StrVal(prefix[1] \o <<":", " ">> \o message)
    ELSE StrVal(message)

-----------------------------------------------------------------------------
(* Module-level constants *)

ModuleGlobals ==
    [DEFAULT_TIMEOUT |-> 5000, MAX_RETRIES |-> 3, API_VERSION |-> <<"v", "1">>]

-----------------------------------------------------------------------------
(* State machine *)

Growth == Len(apps) + Len(services) + Len(output)

Init ==
    /\ apps = <<>>
    /\ services = <<>>
    /\ output = <<>>
    /\ globals = ModuleGlobals
    /\ lastOp = Call("import", 0, <<>>, <<>>)
    /\ ret = NoneVal
    /\ hist = <<>>

NewApplication(name, version) ==
    /\ Growth < MaxGrowth
    /\ apps' = Append(apps, Application_init(name, version))
    /\ hist' = Append(hist, [given |-> name, last |-> "none"])
    /\ lastOp' = Call("Application", Len(apps) + 1, <<name, version>>, <<>>)
    /\ ret' = ObjVal("Application")
    /\ UNCHANGED <<services, output, globals>>

GetName(a) ==
    /\ ret' = get_name(apps[a])
    /\ lastOp' = Call("get_name", a, <<>>, <<>>)
    /\ UNCHANGED <<apps, services, output, globals, hist>>

SetName(a, name) ==
    /\ apps' = [apps EXCEPT ![a] = set_name(apps[a], name)]
    /\ hist' = [hist EXCEPT ![a].given = name]
    /\ lastOp' = Call("set_name", a, <<name>>, <<>>)
    /\ ret' = NoneVal
    /\ UNCHANGED <<services, output, globals>>

Start(a) ==
    /\ Growth < MaxGrowth
    /\ apps' = [apps EXCEPT ![a] = start(apps[a]).obj]
    /\ output' = Append(output, start(apps[a]).out)
    /\ hist' = [hist EXCEPT ![a].last = "start"]
    /\ lastOp' = Call("start", a, <<>>, <<>>)
    /\ ret' = NoneVal
    /\ UNCHANGED <<services, globals>>

Stop(a) ==
    /\ Growth < MaxGrowth
    /\ apps' = [apps EXCEPT ![a] = stop(apps[a]).obj]
    /\ output' = Append(output, stop(apps[a]).out)
    /\ hist' = [hist EXCEPT ![a].last = "stop"]
    /\ lastOp' = Call("stop", a, <<>>, <<>>)
    /\ ret' = NoneVal
    /\ UNCHANGED <<services, globals>>

NewApiService_rebindsGlobal(api_key, timeout) ==
    /\ Growth < MaxGrowth
    /\ services' = Append(services, ApiService_init(api_key, timeout))
    /\ globals' = [globals EXCEPT !.DEFAULT_TIMEOUT =
                       IF timeout = <<>> THEN @ ELSE timeout[1]]
    /\ lastOp' = Call("ApiService", Len(services) + 1, <<api_key>>, timeout)
    /\ ret' = ObjVal("ApiService")
    /\ UNCHANGED <<apps, output, hist>>

NewApiService(api_key, timeout) ==
    /\ Growth < MaxGrowth
    /\ services' = Append(services, ApiService_init(api_key, timeout))
    /\ lastOp' = Call("ApiService", Len(services) + 1, <<api_key>>, timeout)
    /\ ret' = ObjVal("ApiService")
    /\ UNCHANGED <<apps, output, globals, hist>>

FetchData(s, endpoint) ==
    /\ services' = [services EXCEPT ![s] = fetch_data(services[s], endpoint).obj]
    /\ ret' = fetch_data(services[s], endpoint).ret
    /\ lastOp' = Call("fetch_data", s, <<endpoint>>, <<>>)
    /\ UNCHANGED <<apps, output, globals, hist>>

PostData(s, endpoint, data) ==
    /\ services' = [services EXCEPT ![s] = post_data(services[s], endpoint, data).obj]
    /\ ret' = post_data(services[s], endpoint, data).ret
    /\ lastOp' = Call("post_data", s, <<endpoint>>, <<data>>)
    /\ UNCHANGED <<apps, output, globals, hist>>

FormatMessage(message, prefix) ==
    /\ ret' = format_message(message, prefix)
    /\ lastOp' = Call("format_message", 0, <<message>>, prefix)
    /\ UNCHANGED <<apps, services, output, globals, hist>>

Next ==
    \/ \E n \in Names, v \in Versions : NewApplication(n, v)
    \/ \E a \in DOMAIN apps : GetName(a)
    \/ \E a \in DOMAIN apps, n \in Names : SetName(a, n)
    \/ \E a \in DOMAIN apps : Start(a)
    \/ \E a \in DOMAIN apps : Stop(a)
    \/ \E k \in Keys, t \in Opt(Timeouts) : NewApiService(k, t)
    \/ \E s \in DOMAIN services, e \in Endpoints : FetchData(s, e)
    \/ \E s \in DOMAIN services, e \in Endpoints, d \in Data : PostData(s, e, d)
    \/ \E m \in Names, p \in Opt(Prefixes) : FormatMessage(m, p)

Spec == Init /\ [][Next]_vars

NextFmt == \E m \in Strs, p \in Opt(Strs) : FormatMessage(m, p)

SpecFmt == Init /\ [][NextFmt]_vars

-----------------------------------------------------------------------------
(* Properties *)

IsCall(op) == lastOp.op = op

Sep == <<":", " ">>

StartingPrefix == <<"S", "t", "a", "r", "t", "i", "n", "g", " ">>

StoppingPrefix == <<"S", "t", "o", "p", "p", "i", "n", "g", " ">>

(* C1 as stated: format_message(message) with the prefix omitted returns   *)
(* message, and format_message(message, prefix) returns                    *)
(* prefix + ": " + message for every supplied prefix.                      *)
C1_AsStated ==
    IsCall("format_message") =>
        ret = StrVal(IF lastOp.opt = <<>>
                     THEN lastOp.args[1]
                     ELSE lastOp.opt[1] \o Sep \o lastOp.args[1])

(* C1 amended: format_message(message) with the prefix omitted returns     *)
(* message, and format_message(message, prefix) with a non-empty prefix    *)
(* returns prefix + ": " + message.                                        *)
C1_NonEmptyPrefix ==
    IsCall("format_message") =>
        /\ lastOp.opt = <<>> => ret = StrVal(lastOp.args[1])
        /\ (lastOp.opt # <<>> /\ Len(lastOp.opt[1]) > 0) =>
               ret = StrVal(lastOp.opt[1] \o Sep \o lastOp.args[1])

C1_Witness ==
    /\ IsCall("format_message")
    /\ lastOp.opt # <<>>
    /\ Len(lastOp.opt[1]) = MaxLen
    /\ Len(lastOp.args[1]) = MaxLen
    /\ Len(ret.val) = 2 * MaxLen + 2
    /\ SubSeq(ret.val, MaxLen + 1, MaxLen + 2) = Sep

(* C2: the _running flag of every Application reflects its last start/stop *)
(* call: false until the first start, true when the last such call was     *)
(* start, false when it was stop, whatever get_name and set_name calls are *)
(* interleaved.                                                            *)
C2_RunningReflectsLastCall ==
    \A a \in DOMAIN apps :
        /\ hist[a].last = "none" => apps[a]._running = FALSE
        /\ hist[a].last = "start" => apps[a]._running = TRUE
        /\ hist[a].last = "stop" => apps[a]._running = FALSE

C2_Witness ==
    /\ Len(apps) = 1
    /\ Len(output) = 2
    /\ SubSeq(output[1], 1, 9) = StartingPrefix
    /\ SubSeq(output[2], 1, 9) = StoppingPrefix
    /\ IsCall("set_name")
    /\ hist[1].last = "stop"
    /\ apps[1]._running = FALSE

(* C3: the module constants keep their literal values in every reachable   *)
(* state: DEFAULT_TIMEOUT = 5000, MAX_RETRIES = 3, API_VERSION = "v1".     *)
C3_ConstantsKeepValues ==
    /\ globals.DEFAULT_TIMEOUT = 5000
    /\ globals.MAX_RETRIES = 3
    /\ globals.API_VERSION = <<"v", "1">>

C3_Witness ==
    /\ Len(apps) > 0
    /\ Len(services) > 0
    /\ services[1].timeout # 5000
    /\ Len(output) > 0
    /\ IsCall("format_message")
    /\ globals.DEFAULT_TIMEOUT = 5000

(* C4: constructing an ApiService stores the given api_key, sets timeout   *)
(* to 5000 when no timeout is passed and to the passed value otherwise,    *)
(* and sets retries to 3 whatever the arguments.                           *)
C4_Constructor ==
    IsCall("ApiService") =>
        /\ lastOp.id = Len(services)
        /\ services[lastOp.id].api_key = lastOp.args[1]
        /\ lastOp.opt = <<>> => services[lastOp.id].timeout = 5000
        /\ lastOp.opt # <<>> => services[lastOp.id].timeout = lastOp.opt[1]
        /\ services[lastOp.id].retries = 3

C4_Witness ==
    /\ IsCall("ApiService")
    /\ Len(services) = 2
    /\ services[1].timeout = 5000
    /\ services[2].timeout = 30000
    /\ services[1].api_key # services[2].api_key
    /\ services[2].retries = 3

(* C5: fetch_data returns an empty mapping and post_data returns nothing,  *)
(* for every endpoint and data value, and neither ends in an error.        *)
C5_StubsComplete ==
    /\ IsCall("fetch_data") => ret.kind = "dict" /\ ret.val = <<>>
    /\ IsCall("post_data") => ret.kind = "None"
    /\ (IsCall("fetch_data") \/ IsCall("post_data")) => ret.kind # "raise"

C5_Witness ==
    /\ IsCall("fetch_data")
    /\ services[lastOp.id].timeout = 0
    /\ ret.kind = "dict"
    /\ ret.val = <<>>

(* C7: a fetch_data or post_data call leaves every ApiService's api_key,   *)
(* timeout and retries and every Application's name, version and _running *)
(* as they were.                                                           *)
C7_StubsChangeNothing ==
    [][(lastOp'.op \in {"fetch_data", "post_data"}) =>
           /\ services' = services
           /\ apps' = apps
           /\ output' = output]_vars

C7_Witness ==
    /\ IsCall("post_data")
    /\ lastOp.opt[1] # <<>>
    /\ services[lastOp.id].retries = 3
    /\ services[lastOp.id].timeout = 30000
    /\ Len(apps) > 0
    /\ apps[1]._running = TRUE

(* C8: get_name returns the name given by the most recent set_name, or the *)
(* constructor's name if there was none, and changes nothing; set_name     *)
(* changes only the name of its instance; start and stop change no name    *)
(* and no version; the version of an instance never changes.               *)
C8_NameAndFrames ==
    [][/\ lastOp'.op = "get_name" =>
              /\ ret' = StrVal(hist[lastOp'.id].given)
              /\ apps' = apps
       /\ lastOp'.op = "set_name" =>
              /\ apps'[lastOp'.id].name = lastOp'.args[1]
              /\ \A a \in DOMAIN apps :
                     /\ apps'[a].version = apps[a].version
                     /\ apps'[a]._running = apps[a]._running
                     /\ a # lastOp'.id => apps'[a].name = apps[a].name
       /\ lastOp'.op \in {"start", "stop"} =>
              \A a \in DOMAIN apps :
                  /\ apps'[a].name = apps[a].name
                  /\ apps'[a].version = apps[a].version
                  /\ a # lastOp'.id => apps'[a]._running = apps[a]._running
       /\ \A a \in DOMAIN apps : apps'[a].version = apps[a].version]_vars

C8_Witness ==
    /\ Len(apps) = 1
    /\ Len(output) = 1
    /\ output[1] = StartingPrefix \o <<"a", " ", "v", "1">>
    /\ IsCall("get_name")
    /\ ret = StrVal(<<"b">>)
    /\ apps[1].version = <<"1">>
    /\ apps[1]._running = TRUE

(* C9: start and stop act whatever the _running flag is: start leaves it   *)
(* true, stop leaves it false, and each call prints exactly one line,      *)
(* "Starting <name> v<version>" or "Stopping <name>", with the name        *)
(* current at the call.                                                    *)
C9_StartStopEmit ==
    [][/\ lastOp'.op = "start" =>
              /\ apps'[lastOp'.id]._running = TRUE
              /\ output' = Append(output,
                     StartingPrefix \o hist[lastOp'.id].given \o <<" ", "v">>
                         \o apps[lastOp'.id].version)
       /\ lastOp'.op = "stop" =>
              /\ apps'[lastOp'.id]._running = FALSE
              /\ output' = Append(output,
                     StoppingPrefix \o hist[lastOp'.id].given)]_vars

C9_Witness ==
    /\ Len(apps) = 1
    /\ Len(output) = 2
    /\ output[1] = StartingPrefix \o <<"a", " ", "v", "2">>
    /\ output[2] = StartingPrefix \o <<"b", " ", "v", "2">>
    /\ IsCall("start")
    /\ apps[1]._running = TRUE

(* C10: format_message treats an empty-string prefix as an omitted one:    *)
(* format_message(message, "") returns message and not ": " + message, and *)
(* the prefixed form is returned only for a non-empty prefix.              *)
C10_EmptyPrefixIsOmitted ==
    IsCall("format_message") =>
        /\ lastOp.opt = <<<<>>>> =>
               /\ ret = StrVal(lastOp.args[1])
               /\ ret.val # Sep \o lastOp.args[1]
        /\ (lastOp.opt # <<>>
              /\ ret.val = lastOp.opt[1] \o Sep \o lastOp.args[1]) =>
               Len(lastOp.opt[1]) > 0

C10_Witness ==
    /\ IsCall("format_message")
    /\ lastOp.opt = <<<<>>>>
    /\ Len(lastOp.args[1]) = MaxLen
    /\ ret.val = lastOp.args[1]

====
